---- MODULE Spec2Model ----
(***************************************************************************)
(* The two post-stack inversion tutorials of pylops-mpi                     *)
(*   src/tutorials_cupy/poststack_cupy.py   (CUDA-aware MPI, "cupy")        *)
(*   src/tutorials_nccl/poststack_nccl.py   (NCCL, "nccl")                   *)
(* as a state machine: every MPI rank of a run is a process that executes   *)
(* the statements of the script in order; the collectives (allreduce,       *)
(* allgather, asarray, the solvers) are rendezvous between the ranks of one *)
(* run.  Arrays are integer arrays: a value is a whole number of units of   *)
(* 1e-8, the default absolute tolerance of np.allclose, so that the two     *)
(* tolerances the scripts use are the integers 1 and 100.                   *)
(***************************************************************************)
EXTENDS Integers, Sequences, FiniteSets, TLC

\* ------------------------------------------------------------------ bounds

\* Largest number of MPI ranks of a run.
MaxRanks == 2

\* Largest number of GPUs visible to a rank.
MaxDevices == 2

\* The model file holds impedances 2^0 .. 2^MaxLogImp.
MaxLogImp == 1

\* Shape of the model stored in the file: FileNz time samples, FileNx traces.
FileNz == 4

FileNx == 4

\* --------------------------------------------------------- program constants

\* ny_i = 20: size of the model in y direction for rank i.
NyI == 20

\* nsmoothy, nsmoothx, nsmoothz = 5, 30, 20
nsmoothy == 5

nsmoothx == 30

nsmoothz == 20

\* ntwav = 41
ntwav == 41

\* niter=100 of the three solver calls.
niter == 100

\* np.allclose(a, b): |a - b| <= atol + rtol * |b| with the defaults
\* rtol = 1e-5 and atol = 1e-8 (one unit); the cupy script passes atol=1e-6.
AtolDefault == 1

AtolCupy == 100

RtolInv == 100000

\* Spacing of the values a float32 wavelet sample can take, in the units of
\* the wavelet table (hundredths): narrowing to float32 keeps fewer
\* significand bits.  The spacing is coarse enough to change the samples of
\* the table; the change it makes to the data lies between the two absolute
\* tolerances, as that of float32 (about 1e-7) does.
F32Quantum == 4

\* ------------------------------------------------------------------ arrays

\* The sum of the entries of a sequence of integers.
RECURSIVE SumFrom(_, _)
SumFrom(s, n) == IF n = 0 THEN 0 ELSE s[n] + SumFrom(s, n - 1)

SumSeq(s) == SumFrom(s, Len(s))

Abs(v) == IF v < 0 THEN -v ELSE v

\* An array that has not been assigned yet.
NoArr == [shape |-> <<0, 0, 0>>, data |-> <<>>]

\* A 3D ndarray in C order: shape <<n1, n2, n3>> and the flat data, element
\* (i, j, k) being f[i, j, k] (the concatenation with <<>> makes the data an
\* explicit tuple).
Arr3(n1, n2, n3, f) ==
    [shape |-> <<n1, n2, n3>>,
     data  |-> [q \in 1..(n1 * n2 * n3) |->
                  f[((q - 1) \div (n3 * n2)) + 1,
                    (((q - 1) \div n3) % n2) + 1,
                    ((q - 1) % n3) + 1]] \o <<>>]

At(a, i, j, k) == a.data[((i - 1) * a.shape[2] + (j - 1)) * a.shape[3] + k]

\* ndarray.transpose(axes): axis q of the result is axis axes[q] (0-based)
\* of the argument.
Transpose3(a, axes) ==
    LET src(q) == CHOOSE r \in 1..3 : axes[r] + 1 = q
        n1 == a.shape[axes[1] + 1]
        n2 == a.shape[axes[2] + 1]
        n3 == a.shape[axes[3] + 1]
    IN Arr3(n1, n2, n3,
            [i \in 1..n1, j \in 1..n2, k \in 1..n3 |->
                LET idx == <<i, j, k>>
                IN At(a, idx[src(1)], idx[src(2)], idx[src(3)])])

\* ndarray.flatten() and ndarray.reshape(shape) of a flat array.
Flatten(a) == a.data

Reshape(flat, shape) == [shape |-> shape, data |-> flat]

\* np.concatenate(list): the arrays one after the other along axis 0.
RECURSIVE ConcatData(_, _)
ConcatData(list, n) ==
    IF n = 0 THEN <<>> ELSE ConcatData(list, n - 1) \o list[n].data

Concatenate(list) ==
    [shape |-> <<SumSeq([q \in 1..Len(list) |-> list[q].shape[1]]),
                 list[1].shape[2], list[1].shape[3]>>,
     data  |-> ConcatData(list, Len(list))]

\* np.tile(m[:, :, np.newaxis], (1, 1, reps)): m repeated along a new last axis.
TileLast(m, reps) ==
    Arr3(m.shape[1], m.shape[2], reps,
         [i \in 1..m.shape[1], j \in 1..m.shape[2], k \in 1..reps |-> At(m, i, j, 1)])

\* ------------------------------------------------------- numerical kernels

\* np.log on the impedances of the file (powers of two): the exponent.
Log(v) == CHOOSE k \in 0..30 : 2 ^ k = v

\* The file's 'model' array, two layers of impedance v1 over v2 whose
\* interface steps down every third trace.
ModelFile(v1, v2) ==
    [shape |-> <<FileNz, FileNx, 1>>,
     data  |-> [q \in 1..(FileNz * FileNx) |->
                  LET z == ((q - 1) \div FileNx) + 1
                      x == ((q - 1) % FileNx) + 1
                  IN IF z <= 1 + (((x - 1) \div 3) % 2) THEN v1 ELSE v2] \o <<>>]

\* np.log(model['model'])[:, ::3]: the log of every third trace.
LoadModel(f) ==
    Arr3(f.shape[1], (f.shape[2] + 2) \div 3, 1,
         [z \in 1..f.shape[1], x \in 1..((f.shape[2] + 2) \div 3), k \in {1} |->
             Log(At(f, z, 3 * (x - 1) + 1, 1))])

\* One pass of the length-n moving average along one axis, forward (dir = -1
\* looks back) or backward (dir = 1), the ends held at the edge samples: the
\* window at position pos holds `inside` samples of the array and n - inside
\* copies of the edge sample.
Shift(i, j, k, axis, o) ==
    <<IF axis = 0 THEN i + o ELSE i,
      IF axis = 1 THEN j + o ELSE j,
      IF axis = 2 THEN k + o ELSE k>>

MovAvg(a, axis, n, dir) ==
    LET len == a.shape[axis + 1]
    IN Arr3(a.shape[1], a.shape[2], a.shape[3],
         [i \in 1..a.shape[1], j \in 1..a.shape[2], k \in 1..a.shape[3] |->
            LET pos == <<i, j, k>>[axis + 1]
                room == IF dir = -1 THEN pos ELSE len - pos + 1
                inside == IF n < room THEN n ELSE room
                edge == Shift(i, j, k, axis, dir * (inside - 1))
            IN (SumSeq([w \in 1..inside |->
                          LET at == Shift(i, j, k, axis, dir * (w - 1))
                          IN At(a, at[1], at[2], at[3])])
                + (n - inside) * At(a, edge[1], edge[2], edge[3]))
               \div n])

\* filtfilt(np.ones(n) / float(n), 1, a, axis=axis): the moving average run
\* forward and then backward (zero phase).
FiltFilt(n, a, axis) == MovAvg(MovAvg(a, axis, n, -1), axis, n, 1)

\* ricker(t, f0=15)[0] at t = k * dt, dt = 0.004, in hundredths.
RickerSample(k) ==
    CASE k = 0 -> 100
      [] k = 1 -> 90
      [] k = 2 -> 62
      [] k = 3 -> 26
      [] k = 4 -> -8
      [] OTHER -> 0

\* ricker(t0[:ntwav // 2 + 1], 15)[0]: the symmetric wavelet over the first
\* ntwav // 2 + 1 time samples (fewer when nz is smaller).
Ricker(nz) ==
    LET h == IF nz < (ntwav \div 2) + 1 THEN nz ELSE (ntwav \div 2) + 1
    IN [j \in 1..(2 * h - 1) |-> RickerSample(Abs(j - h))] \o <<>>

\* wav.astype(np.float32): every sample rounded to the float32 grid.
AsFloat32(wav) ==
    [j \in 1..Len(wav) |-> wav[j] - (wav[j] % F32Quantum)] \o <<>>

\* An operator that has not been built yet.
NoOp == [wav |-> <<>>, nt0 |-> 0, spatdims |-> <<0, 0>>, dtype |-> ""]

\* PoststackLinearModelling(wav, nt0, spatdims) @ x for x of shape
\* (nt0, spatdims): along axis 0 of every trace, the centered first
\* derivative convolved with the wavelet (0.5 * Convolve1D * FirstDerivative;
\* the two factors 0.5 are left in the unit of the data).
Deriv(x, t, a, b) ==
    IF t = 1 \/ t = x.shape[1] THEN 0 ELSE At(x, t + 1, a, b) - At(x, t - 1, a, b)

PoststackMatvec(op, x) ==
    LET L == Len(op.wav)
        c == (L \div 2) + 1
    IN Arr3(op.nt0, op.spatdims[1], op.spatdims[2],
            [t \in 1..op.nt0, a \in 1..op.spatdims[1], b \in 1..op.spatdims[2] |->
               SumSeq([j \in 1..L |->
                         IF t - j + c >= 1 /\ t - j + c <= op.nt0
                         THEN op.wav[j] * Deriv(x, t - j + c, a, b)
                         ELSE 0])])

\* np.allclose(a, b, atol=atol): elementwise |a - b| <= atol + 1e-5 * |b|.
AllClose(a, b, atol) ==
    /\ a.shape = b.shape
    /\ \A q \in 1..Len(a.data) :
          RtolInv * Abs(a.data[q] - b.data[q]) <= RtolInv * atol + Abs(b.data[q])

\* ------------------------------------------------------------------- state

Scripts == {"cupy", "nccl"}

VARIABLES
    scripts,        \* the scripts that are run (one run each)
    file,           \* ../testdata/avo/poststack_model.npz, its 'model' array
    size,           \* number of MPI ranks of a run
    device_count,   \* cp.cuda.runtime.getDeviceCount()
    pc,             \* pc[p]: the statement process p executes next
    env,            \* env[p]: the script's variables on process p
    stdout,         \* stdout[p]: the lines process p has printed
    figure,         \* figure[p]: whether process p has drawn the figure
    log             \* log[p]: the library calls process p has made, in order

vars == <<scripts, file, size, device_count, pc, env, stdout, figure, log>>

\* A process is <<script, rank>>: rank `rank` of the run of `script`.
Procs == scripts \X (0..(size - 1))

\* Every process a run can have; those outside Procs never start.
AllProcs == Scripts \X (0..(MaxRanks - 1))

RankOf(p) == p[2]

ScriptOf(p) == p[1]

\* The processes of the same run as p, by rank.
Peer(p, r) == <<ScriptOf(p), r>>

\* A DistributedArray that has not been built yet.
NoDist == [global_shape |-> 0, base_comm_nccl |-> "", engine |-> "", local |-> <<>>]

\* The script's variables before its first statement.
NoEnv ==
    [rank |-> -1, device |-> -1, nccl_comm |-> "",
     m |-> NoArr, m3d_i |-> NoArr, dims |-> <<0, 0, 0>>, ny |-> 0,
     mback3d_i |-> NoArr, wav |-> <<>>, m3d |-> NoArr, mback3d |-> NoArr,
     m3d_dist |-> NoDist, mback3d_dist |-> NoDist,
     PPop |-> NoOp, Top |-> [dims |-> <<0, 0, 0>>, axes |-> <<0, 0, 0>>],
     BDiag |-> <<>>,
     d_dist |-> NoDist, d_local |-> NoArr, d |-> NoArr,
     d_0_dist |-> NoDist, d_0 |-> NoArr,
     minv3d_iter |-> "", minv3d_ne |-> "", minv3d_reg |-> "",
     d0_dist |-> NoDist,
     PPop0 |-> NoOp, d0 |-> NoArr, d0_0 |-> NoArr]

\* One library call, as the log keeps it: the statement group it belongs to,
\* the callee, and the arguments in which calls of the same callee differ.
Call(stage, callee, comm, dtype, tol, n) ==
    [stage |-> stage, call |-> callee, comm |-> comm, dtype |-> dtype,
     tol |-> tol, n |-> n]

\* The statements of a script in the order of its text.
Labels ==
    <<"init", "load", "tile", "allreduce", "smooth", "allgather", "fill",
      "build", "model", "asarray_d", "model_0", "asarray_d_0",
      "cgls", "cg", "reg", "check", "done">>

StageNo(l) == CHOOSE i \in 1..Len(Labels) : Labels[i] = l

\* The statement that follows statement l in the script.
PcAfterSwapped(l) ==
    CASE l = "init" -> "load"
      [] l = "load" -> "tile"
      [] l = "tile" -> "allreduce"
      [] l = "allreduce" -> "smooth"
      [] l = "smooth" -> "allgather"
      [] l = "allgather" -> "fill"
      [] l = "fill" -> "build"
      [] l = "build" -> "model"
      [] l = "model" -> "asarray_d"
      [] l = "asarray_d" -> "model_0"
      [] l = "model_0" -> "asarray_d_0"
      [] l = "asarray_d_0" -> "cg"
      [] l = "cg" -> "cgls"
      [] l = "cgls" -> "reg"
      [] l = "reg" -> "check"
      [] OTHER -> "done"

PcAfter(l) ==
    CASE l = "init" -> "load"
      [] l = "load" -> "tile"
      [] l = "tile" -> "allreduce"
      [] l = "allreduce" -> "smooth"
      [] l = "smooth" -> "allgather"
      [] l = "allgather" -> "fill"
      [] l = "fill" -> "build"
      [] l = "build" -> "model"
      [] l = "model" -> "asarray_d"
      [] l = "asarray_d" -> "model_0"
      [] l = "model_0" -> "asarray_d_0"
      [] l = "asarray_d_0" -> "cgls"
      [] l = "cgls" -> "cg"
      [] l = "cg" -> "reg"
      [] l = "reg" -> "check"
      [] OTHER -> "done"

\* A collective returns on p once every rank of the run has entered it.
Entered(p, l) ==
    \A r \in 0..(size - 1) : StageNo(pc[Peer(p, r)]) >= StageNo(l)

\* When the two scripts are stepped side by side, the processes take turns:
\* the one that is furthest behind steps (of several, the lowest rank, the
\* cupy run first).  A single run is not paced.
TurnKey(q) ==
    (StageNo(pc[q]) * MaxRanks + RankOf(q)) * 2 + (IF ScriptOf(q) = "cupy" THEN 0 ELSE 1)

Turn(p) == scripts = Scripts => \A q \in Procs : TurnKey(p) <= TurnKey(q)

\* Process p finishes statement l: the effect on its variables and its calls.
Step(p, l, newenv, calls) ==
    /\ pc[p] = l
    /\ Turn(p)
    /\ pc' = [pc EXCEPT ![p] = PcAfter(l)]
    /\ env' = [env EXCEPT ![p] = newenv]
    /\ log' = [log EXCEPT ![p] = @ \o calls]
    /\ UNCHANGED <<scripts, file, size, device_count>>

\* ------------------------------------------------------- library semantics

\* cp.cuda.Device(rank % device_count)
DeviceForDiv(rank, count) == rank \div count

DeviceFor(rank, count) == rank % count

\* MPI.COMM_WORLD.allreduce(v): the sum (MPI.SUM, the default op) of the
\* values of all ranks.
AllreduceMax(vals) ==
    CHOOSE v \in {vals[q] : q \in 1..Len(vals)} :
        \A q \in 1..Len(vals) : vals[q] <= v

Allreduce(vals) == SumSeq(vals)

\* MPI.COMM_WORLD.allgather(v): the values of all ranks, by rank.
Allgather(p, field) == [q \in 1..size |-> env[Peer(p, q - 1)][field]]

\* pylops_mpi.DistributedArray(global_shape=n, base_comm_nccl=comm,
\* engine=engine): the default partition scatters n over the ranks, the
\* first n % size ranks holding one element more.
LocalShape(n, nranks, rank) == (n \div nranks) + (IF rank < n % nranks THEN 1 ELSE 0)

DistributedArray(n, comm, engine, nranks, rank) ==
    [global_shape |-> n, base_comm_nccl |-> comm, engine |-> engine,
     local |-> [q \in 1..LocalShape(n, nranks, rank) |-> 0] \o <<>>]

\* The base_comm_nccl argument the script passes when it builds array `name`.
BaseCommForgetful(s, name, nccl_comm) ==
    IF s = "nccl" /\ name # "d0_dist" THEN nccl_comm ELSE ""

BaseComm(s, name, nccl_comm) == IF s = "nccl" THEN nccl_comm ELSE ""

\* The wavelet the script hands to the block operator PPop, and its dtype.
PPopWavelet(s, wav) == IF s = "cupy" THEN AsFloat32(wav) ELSE wav

PPopDtype(s) == IF s = "cupy" THEN "float32" ELSE "float64"

\* Transpose(dims, axes) @ x, and its adjoint Top.H @ y.
TopMatvec(Top, flat) == Flatten(Transpose3(Reshape(flat, Top.dims), Top.axes))

InverseAxes(axes) == [q \in 1..3 |-> (CHOOSE r \in 1..3 : axes[r] + 1 = q) - 1]

TopRmatvecSameAxes(Top, flat) ==
    Flatten(Transpose3(
        Reshape(flat, <<Top.dims[Top.axes[1] + 1], Top.dims[Top.axes[2] + 1],
                        Top.dims[Top.axes[3] + 1]>>),
        Top.axes))

TopRmatvec(Top, flat) ==
    Flatten(Transpose3(
        Reshape(flat, <<Top.dims[Top.axes[1] + 1], Top.dims[Top.axes[2] + 1],
                        Top.dims[Top.axes[3] + 1]>>),
        InverseAxes(Top.axes)))

\* MPIBlockDiag(ops=[Top.H @ PPop @ Top]) @ x: every rank applies its block
\* to its local part of x.
BlockDiagMatvec(e, x) ==
    [x EXCEPT !.local =
        TopRmatvec(e.Top,
            Flatten(PoststackMatvec(e.PPop,
                Reshape(TopMatvec(e.Top, x.local),
                        <<e.PPop.nt0, e.PPop.spatdims[1], e.PPop.spatdims[2]>>))))]

\* x.asarray(): the local arrays of all ranks, by rank, as one flat array.
RECURSIVE ConcatSeqs(_, _)
ConcatSeqs(list, n) == IF n = 0 THEN <<>> ELSE ConcatSeqs(list, n - 1) \o list[n]

Asarray(p, field) ==
    ConcatSeqs([q \in 1..size |-> env[Peer(p, q - 1)][field].local], size)

\* (PPop0 @ x.transpose(2, 0, 1)).transpose(1, 2, 0)
ModelOnRank0(PPop0, x) ==
    Transpose3(PoststackMatvec(PPop0, Transpose3(x, <<2, 0, 1>>)), <<1, 2, 0>>)

\* if rank == 0:
IsRankAny(rank) == rank >= 0

IsRank0(rank) == rank = 0

\* ----------------------------------------------------------------- actions

\* cupy, lines 30-33: the rank, the device count, the device of the rank.
SelectDevice(p) ==
    /\ ScriptOf(p) = "cupy"
    /\ Step(p, "init",
            [env[p] EXCEPT !.rank = RankOf(p),
                           !.device = DeviceFor(RankOf(p), device_count)],
            <<Call("init", "cp.cuda.Device.use", "", "", "", 0)>>)
    /\ UNCHANGED <<stdout, figure>>

\* nccl, lines 26-28: the NCCL communicator and the rank.
InitializeNccl(p) ==
    /\ ScriptOf(p) = "nccl"
    /\ Step(p, "init",
            [env[p] EXCEPT !.nccl_comm = "nccl_comm", !.rank = RankOf(p)],
            <<Call("init", "initialize_nccl_comm", "", "", "", 0)>>)
    /\ UNCHANGED <<stdout, figure>>

\* model = np.load(...); m = np.log(model['model'])[:, ::3]
Load(p) ==
    /\ Step(p, "load", [env[p] EXCEPT !.m = LoadModel(file)],
            <<Call("load", "np.load", "", "", "", 0)>>)
    /\ UNCHANGED <<stdout, figure>>

\* m3d_i = np.tile(m[:, :, np.newaxis], (1, 1, ny_i)).transpose((2, 1, 0))
\* ny_i, nx, nz = m3d_i.shape
Tile(p) ==
    LET m3d_i == Transpose3(TileLast(env[p].m, NyI), <<2, 1, 0>>)
    IN /\ Step(p, "tile",
               [env[p] EXCEPT !.m3d_i = m3d_i, !.dims = m3d_i.shape],
               <<Call("tile", "np.tile", "", "", "", NyI)>>)
       /\ UNCHANGED <<stdout, figure>>

\* ny = MPI.COMM_WORLD.allreduce(ny_i)
AllreduceNy(p) ==
    /\ pc[p] = "allreduce"
    /\ Entered(p, "allreduce")
    /\ Step(p, "allreduce",
            [env[p] EXCEPT !.ny =
                Allreduce([q \in 1..size |-> env[Peer(p, q - 1)].dims[1]])],
            <<Call("allreduce", "MPI.COMM_WORLD.allreduce", "MPI", "", "",
                   env[p].dims[1])>>)
    /\ UNCHANGED <<stdout, figure>>

\* mback3d_i = filtfilt(...) along y, x and z; wav = ricker(...)[0]
Smooth(p) ==
    /\ Step(p, "smooth",
            [env[p] EXCEPT
                !.mback3d_i =
                    FiltFilt(nsmoothz,
                        FiltFilt(nsmoothx,
                            FiltFilt(nsmoothy, env[p].m3d_i, 0), 1), 2),
                !.wav = Ricker(env[p].dims[3])],
            <<Call("smooth", "filtfilt", "", "", "", nsmoothy),
              Call("smooth", "filtfilt", "", "", "", nsmoothx),
              Call("smooth", "filtfilt", "", "", "", nsmoothz),
              Call("smooth", "ricker", "", "", "", ntwav)>>)
    /\ UNCHANGED <<stdout, figure>>

\* m3d = np.concatenate(MPI.COMM_WORLD.allgather(m3d_i)), the same for mback3d
AllgatherModels(p) ==
    /\ pc[p] = "allgather"
    /\ Entered(p, "allgather")
    /\ Step(p, "allgather",
            [env[p] EXCEPT
                !.m3d = Concatenate(Allgather(p, "m3d_i")),
                !.mback3d = Concatenate(Allgather(p, "mback3d_i"))],
            <<Call("allgather", "MPI.COMM_WORLD.allgather", "MPI", "", "", 0),
              Call("allgather", "MPI.COMM_WORLD.allgather", "MPI", "", "", 0)>>)
    /\ UNCHANGED <<stdout, figure>>

\* m3d_dist = DistributedArray(global_shape=ny * nx * nz, ...)
\* m3d_dist[:] = cp.asarray(m3d_i.flatten()), the same for mback3d_dist
Fill(p) ==
    LET e == env[p]
        n == e.ny * e.dims[2] * e.dims[3]
        a == DistributedArray(n, BaseComm(ScriptOf(p), "m3d_dist", e.nccl_comm),
                              "cupy", size, e.rank)
        b == DistributedArray(n, BaseComm(ScriptOf(p), "mback3d_dist", e.nccl_comm),
                              "cupy", size, e.rank)
    IN /\ Len(a.local) = Len(Flatten(e.m3d_i))
       /\ Len(b.local) = Len(Flatten(e.mback3d_i))
       /\ Step(p, "fill",
               [e EXCEPT !.m3d_dist = [a EXCEPT !.local = Flatten(e.m3d_i)],
                         !.mback3d_dist = [b EXCEPT !.local = Flatten(e.mback3d_i)]],
               <<Call("fill", "DistributedArray", a.base_comm_nccl, "", "", n),
                 Call("fill", "DistributedArray", b.base_comm_nccl, "", "", n)>>)
       /\ UNCHANGED <<stdout, figure>>

\* PPop = PoststackLinearModelling(wav, nt0=nz, spatdims=(ny_i, nx))
\* Top = Transpose((ny_i, nx, nz), (2, 0, 1)); BDiag = MPIBlockDiag(...)
Build(p) ==
    LET e == env[p]
    IN /\ Step(p, "build",
               [e EXCEPT
                   !.PPop = [wav |-> PPopWavelet(ScriptOf(p), e.wav),
                             nt0 |-> e.dims[3],
                             spatdims |-> <<e.dims[1], e.dims[2]>>,
                             dtype |-> PPopDtype(ScriptOf(p))],
                   !.Top = [dims |-> e.dims, axes |-> <<2, 0, 1>>],
                   !.BDiag = <<"Top.H @ PPop @ Top">>],
               <<Call("build", "PoststackLinearModelling", "",
                      PPopDtype(ScriptOf(p)), "", e.dims[3]),
                 Call("build", "Transpose", "", "", "", 0),
                 Call("build", "MPIBlockDiag", "", "", "", 1)>>)
       /\ UNCHANGED <<stdout, figure>>

\* d_dist = BDiag @ m3d_dist; d_local = d_dist.local_array.reshape(...)
Model(p) ==
    LET e == env[p]
        y == BlockDiagMatvec(e, e.m3d_dist)
    IN /\ Step(p, "model",
               [e EXCEPT !.d_dist = y, !.d_local = Reshape(y.local, e.dims)],
               <<Call("model", "BDiag.matvec", "", "", "", 0)>>)
       /\ UNCHANGED <<stdout, figure>>

\* d = d_dist.asarray().reshape((ny, nx, nz))
AsarrayD(p) ==
    LET e == env[p]
    IN /\ pc[p] = "asarray_d"
       /\ Entered(p, "asarray_d")
       /\ Step(p, "asarray_d",
               [e EXCEPT !.d = Reshape(Asarray(p, "d_dist"),
                                       <<e.ny, e.dims[2], e.dims[3]>>)],
               <<Call("model", "asarray", "", "", "", 0)>>)
       /\ UNCHANGED <<stdout, figure>>

\* d_0_dist = BDiag @ mback3d_dist
Model0(p) ==
    LET e == env[p]
        y == BlockDiagMatvec(e, e.mback3d_dist)
    IN /\ Step(p, "model_0", [e EXCEPT !.d_0_dist = y],
               <<Call("model", "BDiag.matvec", "", "", "", 0)>>)
       /\ UNCHANGED <<stdout, figure>>

\* d_0 = d_dist.asarray().reshape((ny, nx, nz))
AsarrayD0(p) ==
    LET e == env[p]
    IN /\ pc[p] = "asarray_d_0"
       /\ Entered(p, "asarray_d_0")
       /\ Step(p, "asarray_d_0",
               [e EXCEPT !.d_0 = Reshape(Asarray(p, "d_dist"),
                                         <<e.ny, e.dims[2], e.dims[3]>>)],
               <<Call("model", "asarray", "", "", "", 0)>>)
       /\ UNCHANGED <<stdout, figure>>

\* minv3d_iter_dist = cgls(BDiag, d_dist, x0=mback3d_dist, niter=100)[0]
\* minv3d_iter = minv3d_iter_dist.asarray().reshape((ny, nx, nz))
Cgls(p) ==
    /\ pc[p] = "cgls"
    /\ Entered(p, "cgls")
    /\ Step(p, "cgls",
            [env[p] EXCEPT !.minv3d_iter = "cgls(BDiag, d_dist, x0=mback3d_dist)"],
            <<Call("cgls", "cgls", "", "", "", niter),
              Call("cgls", "asarray", "", "", "", 0)>>)
    /\ UNCHANGED <<stdout, figure>>

\* LapOp = MPILaplacian(...); NormEqOp = BDiag.H @ BDiag + epsR * LapOp.H @ LapOp
\* dnorm_dist = BDiag.H @ d_dist
\* minv3d_ne_dist = cg(NormEqOp, dnorm_dist, x0=mback3d_dist, niter=100)[0]
Cg(p) ==
    /\ pc[p] = "cg"
    /\ Entered(p, "cg")
    /\ Step(p, "cg",
            [env[p] EXCEPT !.minv3d_ne = "cg(NormEqOp, dnorm_dist, x0=mback3d_dist)"],
            <<Call("cg", "MPILaplacian", "", "", "", env[p].ny),
              Call("cg", "BDiag.rmatvec", "", "", "", 0),
              Call("cg", "cg", "", "", "", niter),
              Call("cg", "asarray", "", "", "", 0)>>)
    /\ UNCHANGED <<stdout, figure>>

\* StackOp = MPIStackedVStack([BDiag, np.sqrt(epsR) * LapOp])
\* d0_dist = DistributedArray(global_shape=ny * nx * nz, ...); d0_dist[:] = 0.
\* dstack_dist = StackedDistributedArray([d_dist, d0_dist])
\* minv3d_reg_dist = cgls(StackOp, dstack_dist, x0=mback3d_dist, niter=100)[0]
Reg(p) ==
    LET e == env[p]
        n == e.ny * e.dims[2] * e.dims[3]
        z == DistributedArray(n, BaseComm(ScriptOf(p), "d0_dist", e.nccl_comm),
                              "cupy", size, e.rank)
    IN /\ pc[p] = "reg"
       /\ Entered(p, "reg")
       /\ Step(p, "reg",
               [e EXCEPT !.d0_dist = z,
                         !.minv3d_reg = "cgls(StackOp, dstack_dist, x0=mback3d_dist)"],
               <<Call("reg", "MPIStackedVStack", "", "", "", 2),
                 Call("reg", "DistributedArray", z.base_comm_nccl, "", "", n),
                 Call("reg", "StackedDistributedArray", "", "", "", 2),
                 Call("reg", "BDiag.rmatvec", "", "", "", 0),
                 Call("reg", "cgls", "", "", "", niter),
                 Call("reg", "asarray", "", "", "", 0)>>)
       /\ UNCHANGED <<stdout, figure>>

\* The absolute tolerance of the two np.allclose calls of the script.
Atol(s) == IF s = "cupy" THEN AtolCupy ELSE AtolDefault

AtolName(s) == IF s = "cupy" THEN "asnumpy, atol=1e-6" ELSE "default"

\* if rank == 0: PPop0, d0, d0_0, the two printed checks and the figure.
Check(p) ==
    LET e == env[p]
        PPop0 == [wav |-> e.wav, nt0 |-> e.dims[3],
                  spatdims |-> <<e.ny, e.dims[2]>>, dtype |-> "float64"]
        d0 == ModelOnRank0(PPop0, e.m3d)
        d0_0 == ModelOnRank0(PPop0, e.m3d)
    IN /\ IsRank0(e.rank)
       /\ Step(p, "check",
               [e EXCEPT !.PPop0 = PPop0, !.d0 = d0, !.d0_0 = d0_0],
               <<Call("check", "PoststackLinearModelling", "", "float64", "",
                      e.dims[3]),
                 Call("check", "np.allclose", "", "", AtolName(ScriptOf(p)), 0),
                 Call("check", "np.allclose", "", "", AtolName(ScriptOf(p)), 0),
                 Call("check", "plt.subplots", "", "", "", 0)>>)
       /\ stdout' = [stdout EXCEPT ![p] = @ \o
               <<<<"Distr == Local", AllClose(e.d, d0, Atol(ScriptOf(p)))>>,
                 <<"Smooth Distr == Local",
                   AllClose(e.d_0, d0_0, Atol(ScriptOf(p)))>>>>]
       /\ figure' = [figure EXCEPT ![p] = TRUE]

\* A rank other than 0 skips the block and ends.
SkipCheck(p) ==
    /\ ~IsRank0(env[p].rank)
    /\ Step(p, "check", env[p], <<>>)
    /\ UNCHANGED <<stdout, figure>>

\* ------------------------------------------------------------ specification

Impedances == {2 ^ k : k \in 0..MaxLogImp}

InitRun(ss) ==
    /\ scripts = ss
    /\ \E v1, v2 \in Impedances : file = ModelFile(v1, v2)
    /\ size \in 1..MaxRanks
    /\ device_count \in 1..MaxDevices
    /\ pc = [p \in AllProcs |-> IF p \in Procs THEN "init" ELSE "off"]
    /\ env = [p \in AllProcs |-> NoEnv]
    /\ stdout = [p \in AllProcs |-> <<>>]
    /\ figure = [p \in AllProcs |-> FALSE]
    /\ log = [p \in AllProcs |-> <<>>]

\* One run of one of the two scripts.
Init == \E s \in Scripts : InitRun({s})

Next ==
    \E p \in AllProcs :
        \/ SelectDevice(p)
        \/ InitializeNccl(p)
        \/ Load(p)
        \/ Tile(p)
        \/ AllreduceNy(p)
        \/ Smooth(p)
        \/ AllgatherModels(p)
        \/ Fill(p)
        \/ Build(p)
        \/ Model(p)
        \/ AsarrayD(p)
        \/ Model0(p)
        \/ AsarrayD0(p)
        \/ Cgls(p)
        \/ Cg(p)
        \/ Reg(p)
        \/ Check(p)
        \/ SkipCheck(p)

Spec == Init /\ [][Next]_vars

\* The two scripts run side by side on the same file and the same machine.
InitPair == InitRun(Scripts)

SpecPair == InitPair /\ [][Next]_vars

\* ------------------------------------------------------------------ claims

\* Process p has finished statement l.
Past(p, l) == StageNo(pc[p]) > StageNo(l)

\* Rank 0 of a run, after its last statement.
Rank0Done(p) == p \in Procs /\ RankOf(p) = 0 /\ pc[p] = "done"

\* The shape (ny, nx, nz) of the gathered volumes of a run.
GlobalShape(p) == <<NyI * size, env[p].dims[2], env[p].dims[3]>>

\* The statement groups of the calls in a log, consecutive repeats dropped.
RECURSIVE StagesOf(_, _)
StagesOf(calls, n) ==
    IF n = 0 THEN <<>>
    ELSE LET before == StagesOf(calls, n - 1)
         IN IF before # <<>> /\ before[Len(before)] = calls[n].stage
            THEN before
            ELSE Append(before, calls[n].stage)

IsPrefix(s, t) == Len(s) <= Len(t) /\ \A i \in 1..Len(s) : s[i] = t[i]

C2_SmoothCheckComparesSmoothData ==
    \A p \in AllProcs :
        Rank0Done(p) =>
            LET gathered == Reshape(Asarray(p, "d_0_dist"), GlobalShape(p))
                local == ModelOnRank0(env[p].PPop0, env[p].mback3d)
            IN /\ env[p].d_0 = gathered
               /\ env[p].d0_0 = local
               /\ stdout[p][2] =
                    <<"Smooth Distr == Local",
                      AllClose(gathered, local, Atol(ScriptOf(p)))>>

\* The calls of the same rank in the two runs, as far as both have got.
Both(r) ==
    LET a == log[<<"cupy", r>>]
        b == log[<<"nccl", r>>]
    IN 1..(IF Len(a) < Len(b) THEN Len(a) ELSE Len(b))

C4_DeviceAssignment ==
    LET chosen == {p \in Procs : ScriptOf(p) = "cupy" /\ Past(p, "init")}
    IN /\ \A p \in chosen :
             /\ env[p].device = RankOf(p) % device_count
             /\ env[p].device \in 0..(device_count - 1)
       /\ size <= device_count =>
             \A p, q \in chosen : p # q => env[p].device # env[q].device
       /\ (\E p, q \in chosen : p # q /\ env[p].device = env[q].device) =>
             size > device_count

\* Several ranks, no more than the GPUs, have all selected their GPU.
C4_Witness ==
    /\ scripts = {"cupy"}
    /\ size >= 2
    /\ size <= device_count
    /\ \A p \in Procs : Past(p, "init") /\ env[p].device >= 0

\* The order of the stages C5 states.
C5_Order ==
    <<"init", "load", "tile", "allreduce", "smooth", "allgather", "fill",
      "build", "model", "cgls", "cg", "reg", "check">>

\* C5: every rank runs the stages in the stated order, none skipped or
\* repeated; rank 0 prints and plots only after its three inversions, when
\* every rank has entered the last one.
C5_StagesInOrder ==
    \A p \in Procs :
        /\ IsPrefix(StagesOf(log[p], Len(log[p])), C5_Order)
        /\ Len(StagesOf(log[p], Len(log[p]))) =
             (IF pc[p] = "done" /\ RankOf(p) # 0 THEN 12
              ELSE IF StageNo(pc[p]) <= StageNo("model") THEN StageNo(pc[p]) - 1
              ELSE IF StageNo(pc[p]) <= StageNo("cgls") THEN 9
              ELSE StageNo(pc[p]) - 4)
        /\ (stdout[p] # <<>> \/ figure[p]) =>
              /\ IsPrefix(SubSeq(C5_Order, 1, 12), StagesOf(log[p], Len(log[p])))
              /\ \A r \in 0..(size - 1) :
                    StageNo(pc[Peer(p, r)]) >= StageNo("reg")

\* Every rank of a run of several ranks has ended.
C5_Witness ==
    /\ size >= 2
    /\ \A p \in Procs : pc[p] = "done"
    /\ \E p \in Procs : stdout[p] # <<>>

\* C6: after the allreduce every rank holds ny = the sum of the local ny_i
\* = 20 * P, and the global_shape of every DistributedArray equals the sum
\* over the ranks of the local flattened model sizes.
C6_GlobalSize ==
    \A p \in Procs :
        LET locals == [q \in 1..size |-> Len(Flatten(env[Peer(p, q - 1)].m3d_i))]
        IN /\ Past(p, "allreduce") =>
                /\ env[p].ny = 20 * size
                /\ env[p].ny = SumSeq([q \in 1..size |-> env[Peer(p, q - 1)].dims[1]])
           /\ Past(p, "fill") =>
                /\ env[p].m3d_dist.global_shape = SumSeq(locals)
                /\ env[p].mback3d_dist.global_shape = SumSeq(locals)
                /\ env[p].m3d_dist.global_shape =
                     env[p].ny * env[p].dims[2] * env[p].dims[3]
           /\ Past(p, "reg") => env[p].d0_dist.global_shape = SumSeq(locals)

\* Every rank of a run of several ranks has filled its distributed arrays.
C6_Witness ==
    /\ size >= 2
    /\ \A p \in Procs : Past(p, "fill") /\ env[p].ny = 20 * size

\* C7: only rank 0 builds PPop0, prints the two comparison lines and draws
\* the figure, each line once per run; the other ranks do none of it.
C7_OnlyRank0Reports ==
    \A p \in Procs :
        /\ RankOf(p) # 0 =>
              stdout[p] = <<>> /\ ~figure[p] /\ env[p].PPop0 = NoOp
        /\ RankOf(p) = 0 =>
              /\ Len(stdout[p]) \in {0, 2}
              /\ (pc[p] = "done") <=>
                    /\ Len(stdout[p]) = 2
                    /\ stdout[p][1][1] = "Distr == Local"
                    /\ stdout[p][2][1] = "Smooth Distr == Local"
                    /\ figure[p]
                    /\ env[p].PPop0 # NoOp

\* A run of several ranks has ended: rank 0 has reported, the others not.
C7_Witness ==
    /\ size >= 2
    /\ \A p \in Procs : pc[p] = "done"
    /\ \E p \in Procs : RankOf(p) = 0 /\ Len(stdout[p]) = 2 /\ figure[p]

====
